---- MODULE Spec2Model ----
(***************************************************************************)
(* A model of hpp::function (src/function.hpp): liveness sentinels, the    *)
(* lifetime_sentinel owner mixin, the callable slot of a function handle,  *)
(* and the invocation operator of void and value-returning handles.        *)
(*                                                                         *)
(* An optional<T> is modelled as a sequence of length at most one:         *)
(* <<>> is std::nullopt (hpp::no_value), <<x>> is an engaged optional.     *)
(*                                                                         *)
(* ownerState, guard_ptr, owner_sentinel and slot are the program's state. *)
(* how, from and last are history variables: they record which operation   *)
(* last wrote a slot, which owner handed out the sentinel stored in it, and *)
(* what the invocation in progress did.  No operation reads them.  Spec     *)
(* leaves `from` unrecorded; SpecIssued is the same program with `from`     *)
(* recorded, for the properties that speak of the owner a sentinel was      *)
(* obtained from.                                                           *)
(*                                                                         *)
(* Specifications:                                                         *)
(*   Spec, SpecIssued : owners, the two handles, whole invocations         *)
(*   SpecSet          : Spec with overload_set::connect and ::call         *)
(*   SpecSetAll       : SpecSet with connect of a temporary and with       *)
(*                      overload_set::operator()                           *)
(*   SpecCopy         : a third handle and copies of handles               *)
(*   SpecSteps        : operator() one step at a time (variable frame),    *)
(*                      with owners destroyed between its steps and        *)
(*                      callables that reconnect their own handle          *)
(***************************************************************************)
EXTENDS Integers, Sequences, FiniteSets, TLC

\* Number of lifetime_sentinel objects a run may construct.
MaxOwners == 2

Owners == 1..MaxOwners

\* The callables user code binds and the arguments it passes.
Callables == {"f", "g"}
Args == {0, 1}

\* The value a callable computes from its argument when its body returns
\* normally (f and g compute different values for every argument), and the
\* message it gives a function_exception it throws.
ValueOf(f, a) == IF f = "f" THEN 10 + a ELSE IF f = "g" THEN 20 + a ELSE a
Messages == {"abort"}

VARIABLES
    ownerState,   \* per lifetime_sentinel object: "unborn", "alive" or "dead"
    guard_ptr,    \* lifetime_sentinel::_guard_ptr_: the marker it holds, 0 = null
    owner_sentinel, \* lifetime_sentinel::_sentinel_: the marker its sentinel watches
    slot,         \* _function_container::slot_ of every handle
    how,          \* per handle: the last operation that wrote its slot
    from,         \* per handle: the owner whose get_sentinel() supplied the stored
                  \* sentinel (0: none); recorded only when history is TRUE
    history,      \* whether `from` is recorded; fixed by the initial state
    last,         \* the outcome of an invocation the caller has not let go of yet
    frame         \* the activation of operator() in progress, where an invocation
                  \* is taken one step of its body at a time

vars == <<ownerState, guard_ptr, owner_sentinel, slot, how, from, history, last, frame>>

\* The handles of the generic specialisations the program declares: hv, a
\* function<void(int)>, and hr, a function<int(int)>; where handles are
\* copied, also hc, a second function<void(int)>.
Handles == DOMAIN slot

----------------------------------------------------------------------------
(* std::nullopt and the empty std::function.                               *)
no_value == <<>>

EmptyFunc == "null"

\* has_value(val): the optional holds a value.
has_value(val) == val # no_value

(* std::shared_ptr / std::weak_ptr on the guard markers.  A marker is named *)
(* by the owner whose default member initializer allocated it; 0 is the     *)
(* null pointer.                                                            *)
NullPtr == 0

\* Variant: a sentinel stored in a slot holds a strong reference too.
use_count_with_sentinels(m) ==
    Cardinality({o \in Owners : ownerState[o] = "alive" /\ guard_ptr[o] = m})
    + Cardinality({h \in Handles : slot[h].sentinel = <<[ptr |-> m]>>})

use_count(m) ==
    Cardinality({o \in Owners : ownerState[o] = "alive" /\ guard_ptr[o] = m})

weak_ptr_expired(p) == p = NullPtr \/ use_count(p) = 0

(* sentinel_t holds one weak_ptr.  A sentinel_t is a value: every copy of  *)
(* the sentinel an owner's initializer built has that owner's marker as ptr. *)
sentinel_t(p) == [ptr |-> p]

default_sentinel == sentinel_t(NullPtr)

Sentinels == [ptr : 0..MaxOwners]

\* Variant: a sentinel that watches nothing counts as alive.
sentinel_expired_null_is_live(s) == s.ptr # NullPtr /\ use_count(s.ptr) = 0

sentinel_expired(s) == weak_ptr_expired(s.ptr)

get_sentinel(o) == sentinel_t(owner_sentinel[o])

----------------------------------------------------------------------------
(* _function_container                                                     *)

EmptySlot == [func |-> EmptyFunc, sentinel |-> no_value]

\* Variant: the negation is dropped.
empty_inverted(h) == slot[h].func # EmptyFunc

empty(h) == slot[h].func = EmptyFunc

\* Variant: an absent sentinel counts as expired.
expired_absent_is_expired(h) ==
    IF slot[h].sentinel = no_value
    THEN TRUE
    ELSE sentinel_expired(slot[h].sentinel[1])

expired(h) ==
    IF slot[h].sentinel = no_value
    THEN FALSE
    ELSE sentinel_expired(slot[h].sentinel[1])

valid(h) == ~expired(h) /\ ~empty(h)

\* operator bool()
operator_bool(h) == valid(h)

\* What the four queries answer on handle h: empty(), expired(), valid(),
\* operator bool(), and expired() of the stored sentinel when there is one.
answers(h) ==
    [empty |-> empty(h),
     expired |-> expired(h),
     valid |-> valid(h),
     bool |-> operator_bool(h),
     sentinel_expired |-> IF slot[h].sentinel = no_value
                          THEN <<>>
                          ELSE <<sentinel_expired(slot[h].sentinel[1])>>]

returns_void(h) == h \in {"hv", "hc"}

\* Variant: slot_ is shared by the handles of one signature (a static member).
connect_impl_static(h, sentinel, f) ==
    slot' = [k \in Handles |->
               IF returns_void(k) = returns_void(h)
               THEN [func |-> f, sentinel |-> sentinel] ELSE slot[k]]

connect_impl(h, sentinel, f) ==
    slot' = [slot EXCEPT ![h] = [func |-> f, sentinel |-> sentinel]]

----------------------------------------------------------------------------
(* Exceptions and callable bodies.                                         *)

function_exception(msg, passthrough) ==
    [type |-> "function_exception", what |-> msg, passthrough |-> passthrough]

other_exception ==
    [type |-> "runtime_error", what |-> "defect", passthrough |-> FALSE]

is_function_exception(e) == e.type = "function_exception"

\* What running the body of callable f, bound to handle h, on argument a can
\* do: return (its value, for a value signature) or throw.
Returns(v) == [ret |-> v, exc |-> <<>>]
Throws(e) == [ret |-> <<>>, exc |-> <<e>>]

BodyOutcomes(h, f, a) ==
    {Returns(IF returns_void(h) THEN <<>> ELSE <<ValueOf(f, a)>>)}
    \cup {Throws(function_exception(m, p)) : m \in Messages, p \in BOOLEAN}
    \cup {Throws(other_exception)}

\* The body is not entered at all.
NotRun == [ret |-> <<>>, exc |-> <<>>]

----------------------------------------------------------------------------
(* operator(): what one invocation of handle h with argument a does when   *)
(* the body of the stored callable, if it is entered, behaves as `out`.    *)
(*   called : the callables entered, with their argument, in order         *)
(*   ended  : "returned" or "threw" (an exception left operator())         *)
(*   ret    : the optional returned (always <<>> for a void signature)     *)
(*   exc    : the exception that left operator(), as an optional           *)

\* Variant: catch (...) in place of catch (const function_exception&).
void_operator_call_catch_all(h, a, out) ==
    IF valid(h)
    THEN LET called == <<[callable |-> slot[h].func, arg |-> a]>> IN
         IF out.exc = <<>>
         THEN [called |-> called, ended |-> "returned", ret |-> <<>>, exc |-> <<>>]
         ELSE IF is_function_exception(out.exc[1]) /\ out.exc[1].passthrough
              THEN [called |-> called, ended |-> "threw", ret |-> <<>>, exc |-> out.exc]
              ELSE [called |-> called, ended |-> "returned", ret |-> <<>>, exc |-> <<>>]
    ELSE [called |-> <<>>, ended |-> "returned", ret |-> <<>>, exc |-> <<>>]

void_operator_call(h, a, out) ==
    IF valid(h)
    THEN LET called == <<[callable |-> slot[h].func, arg |-> a]>> IN
         IF out.exc = <<>>
         THEN [called |-> called, ended |-> "returned", ret |-> <<>>, exc |-> <<>>]
         ELSE IF is_function_exception(out.exc[1])
              THEN IF out.exc[1].passthrough
                   THEN [called |-> called, ended |-> "threw", ret |-> <<>>, exc |-> out.exc]
                   ELSE [called |-> called, ended |-> "returned", ret |-> <<>>, exc |-> <<>>]
              ELSE [called |-> called, ended |-> "threw", ret |-> <<>>, exc |-> out.exc]
    ELSE [called |-> <<>>, ended |-> "returned", ret |-> <<>>, exc |-> <<>>]

\* Variant: the handler never rethrows.
value_operator_call_no_rethrow(h, a, out) ==
    IF valid(h)
    THEN LET called == <<[callable |-> slot[h].func, arg |-> a]>> IN
         IF out.exc = <<>>
         THEN [called |-> called, ended |-> "returned", ret |-> out.ret, exc |-> <<>>]
         ELSE IF is_function_exception(out.exc[1])
              THEN [called |-> called, ended |-> "returned", ret |-> no_value, exc |-> <<>>]
              ELSE [called |-> called, ended |-> "threw", ret |-> <<>>, exc |-> out.exc]
    ELSE [called |-> <<>>, ended |-> "returned", ret |-> no_value, exc |-> <<>>]

\* Variant: the callable's value is computed and dropped, as for a void signature.
value_operator_call_drops_value(h, a, out) ==
    IF valid(h)
    THEN LET called == <<[callable |-> slot[h].func, arg |-> a]>> IN
         IF out.exc = <<>>
         THEN [called |-> called, ended |-> "returned", ret |-> no_value, exc |-> <<>>]
         ELSE IF is_function_exception(out.exc[1])
              THEN IF out.exc[1].passthrough
                   THEN [called |-> called, ended |-> "threw", ret |-> <<>>, exc |-> out.exc]
                   ELSE [called |-> called, ended |-> "returned", ret |-> no_value, exc |-> <<>>]
              ELSE [called |-> called, ended |-> "threw", ret |-> <<>>, exc |-> out.exc]
    ELSE [called |-> <<>>, ended |-> "returned", ret |-> no_value, exc |-> <<>>]

value_operator_call(h, a, out) ==
    IF valid(h)
    THEN LET called == <<[callable |-> slot[h].func, arg |-> a]>> IN
         IF out.exc = <<>>
         THEN [called |-> called, ended |-> "returned", ret |-> out.ret, exc |-> <<>>]
         ELSE IF is_function_exception(out.exc[1])
              THEN IF out.exc[1].passthrough
                   THEN [called |-> called, ended |-> "threw", ret |-> <<>>, exc |-> out.exc]
                   ELSE [called |-> called, ended |-> "returned", ret |-> no_value, exc |-> <<>>]
              ELSE [called |-> called, ended |-> "threw", ret |-> <<>>, exc |-> out.exc]
    ELSE [called |-> <<>>, ended |-> "returned", ret |-> no_value, exc |-> <<>>]

operator_call(h, a, out) ==
    IF returns_void(h) THEN void_operator_call(h, a, out)
                       ELSE value_operator_call(h, a, out)

----------------------------------------------------------------------------
TypeOK ==
    /\ ownerState \in [Owners -> {"unborn", "alive", "dead"}]
    /\ guard_ptr \in [Owners -> 0..MaxOwners]
    /\ owner_sentinel \in [Owners -> 0..MaxOwners]
    /\ \A h \in Handles :
          /\ slot[h].func \in Callables \cup {EmptyFunc, "f_moved_from", "g_moved_from"}
          /\ slot[h].sentinel \in {no_value} \cup {<<s>> : s \in Sentinels}
    /\ Handles \subseteq {"hv", "hr", "hc"}
    /\ how \in [Handles -> {"default", "connect", "connect_sentinel", "assign",
                            "disconnect", "copy"}]
    /\ from \in [Handles -> 0..MaxOwners]
    /\ history \in BOOLEAN
    /\ Len(last) <= 1
    /\ Len(frame) <= 1

\* No owner constructed yet, the handles of H default-constructed.
InitOver(H) ==
    /\ ownerState = [o \in Owners |-> "unborn"]
    /\ guard_ptr = [o \in Owners |-> NullPtr]
    /\ owner_sentinel = [o \in Owners |-> NullPtr]
    /\ slot = [h \in H |-> EmptySlot]
    /\ how = [h \in H |-> "default"]
    /\ from = [h \in H |-> 0]
    /\ last = <<>>
    /\ frame = <<>>

InitState == InitOver({"hv", "hr"})

Init == InitState /\ history = FALSE

\* The same program, with the issuer of every stored sentinel recorded.
InitIssued == InitState /\ history = TRUE

----------------------------------------------------------------------------
(* lifetime_sentinel objects.                                              *)

\* lifetime_sentinel(): the default member initializers allocate a fresh
\* marker and point the sentinel at it.
Construct(o) ==
    /\ last = <<>>
    /\ ownerState[o] = "unborn"
    /\ \A p \in Owners : p < o => ownerState[p] # "unborn"
    /\ ownerState' = [ownerState EXCEPT ![o] = "alive"]
    /\ guard_ptr' = [guard_ptr EXCEPT ![o] = o]
    /\ owner_sentinel' = [owner_sentinel EXCEPT ![o] = o]
    /\ last' = <<>>
    /\ UNCHANGED <<slot, how, from, history, frame>>

\* The implicit copy constructor copies both members of the source.
CopyConstruct(o, src) ==
    /\ last = <<>>
    /\ ownerState[o] = "unborn"
    /\ \A p \in Owners : p < o => ownerState[p] # "unborn"
    /\ ownerState[src] = "alive"
    /\ ownerState' = [ownerState EXCEPT ![o] = "alive"]
    /\ guard_ptr' = [guard_ptr EXCEPT ![o] = guard_ptr[src]]
    /\ owner_sentinel' = [owner_sentinel EXCEPT ![o] = owner_sentinel[src]]
    /\ last' = <<>>
    /\ UNCHANGED <<slot, how, from, history, frame>>

\* The implicit copy assignment overwrites both members of the target.
CopyAssign(dst, src) ==
    /\ last = <<>>
    /\ dst # src
    /\ ownerState[dst] = "alive"
    /\ ownerState[src] = "alive"
    /\ guard_ptr' = [guard_ptr EXCEPT ![dst] = guard_ptr[src]]
    /\ owner_sentinel' = [owner_sentinel EXCEPT ![dst] = owner_sentinel[src]]
    /\ last' = <<>>
    /\ UNCHANGED <<ownerState, slot, how, from, history, frame>>

\* The implicit destructor releases the strong reference.
Destroy(o) ==
    /\ last = <<>>
    /\ ownerState[o] = "alive"
    /\ ownerState' = [ownerState EXCEPT ![o] = "dead"]
    /\ guard_ptr' = [guard_ptr EXCEPT ![o] = NullPtr]
    /\ owner_sentinel' = [owner_sentinel EXCEPT ![o] = NullPtr]
    /\ last' = <<>>
    /\ UNCHANGED <<slot, how, from, history, frame>>

----------------------------------------------------------------------------
(* function<...> handles.                                                  *)

\* connect(const Sentinel&, Function&&)
\* s is the sentinel argument and o the owner it was obtained from (0: none).
ConnectSentinel(h, s, o, f) ==
    /\ last = <<>>
    /\ connect_impl(h, s, f)
    /\ how' = [how EXCEPT ![h] = "connect_sentinel"]
    /\ from' = [from EXCEPT ![h] = IF history THEN o ELSE 0]
    /\ last' = <<>>
    /\ UNCHANGED <<ownerState, guard_ptr, owner_sentinel, history, frame>>

\* Variant: connect(f) carries the stored sentinel over, as operator= does.
Connect_keeps_sentinel(h, f) ==
    /\ last = <<>>
    /\ connect_impl(h, slot[h].sentinel, f)
    /\ how' = [how EXCEPT ![h] = "connect"]
    /\ last' = <<>>
    /\ UNCHANGED <<ownerState, guard_ptr, owner_sentinel, from, history, frame>>

\* connect(Function&&) forwards to connect(no_value, f)
Connect(h, f) ==
    /\ last = <<>>
    /\ connect_impl(h, no_value, f)
    /\ how' = [how EXCEPT ![h] = "connect"]
    /\ from' = [from EXCEPT ![h] = 0]
    /\ last' = <<>>
    /\ UNCHANGED <<ownerState, guard_ptr, owner_sentinel, history, frame>>

\* operator=(Function&&)
Assign(h, f) ==
    /\ last = <<>>
    /\ connect_impl(h, slot[h].sentinel, f)
    /\ how' = [how EXCEPT ![h] = "assign"]
    /\ last' = <<>>
    /\ UNCHANGED <<ownerState, guard_ptr, owner_sentinel, from, history, frame>>

\* Variant: only the callable is cleared.
Disconnect_func_only(h) ==
    /\ last = <<>>
    /\ slot' = [slot EXCEPT ![h].func = EmptyFunc]
    /\ how' = [how EXCEPT ![h] = "disconnect"]
    /\ from' = [from EXCEPT ![h] = 0]
    /\ last' = <<>>
    /\ UNCHANGED <<ownerState, guard_ptr, owner_sentinel, history, frame>>

\* disconnect()
Disconnect(h) ==
    /\ last = <<>>
    /\ slot' = [slot EXCEPT ![h] = EmptySlot]
    /\ how' = [how EXCEPT ![h] = "disconnect"]
    /\ from' = [from EXCEPT ![h] = 0]
    /\ last' = <<>>
    /\ UNCHANGED <<ownerState, guard_ptr, owner_sentinel, history, frame>>

\* operator()(args...)
Invoke(h, a) ==
    /\ last = <<>>
    /\ \E out \in (IF valid(h) THEN BodyOutcomes(h, slot[h].func, a) ELSE {NotRun}) :
          last' = <<[op |-> "invoke", h |-> h, arg |-> a, body |-> out,
                     res |-> operator_call(h, a, out)]>>
    /\ UNCHANGED <<ownerState, guard_ptr, owner_sentinel, slot, how, from, history, frame>>

\* Variant: expired() forgets a sentinel it finds expired.
Query_forgets_expired(h) ==
    /\ IF last = <<>> THEN TRUE ELSE last[1].op = "query"
    /\ last' = <<[op |-> "query", h |-> h, now |-> answers(h),
                 before |-> IF last # <<>> /\ last[1].h = h
                            THEN <<last[1].now>> ELSE <<>>]>>
    /\ slot' = IF expired(h) THEN [slot EXCEPT ![h].sentinel = no_value] ELSE slot
    /\ UNCHANGED <<ownerState, guard_ptr, owner_sentinel, how, from, history, frame>>

\* The caller asks empty(), expired(), valid(), operator bool() and the stored
\* sentinel's expired() of handle h, and may ask again right away; `before`
\* is what the same questions answered the time before, if they were just asked.
Query(h) ==
    /\ IF last = <<>> THEN TRUE ELSE last[1].op = "query"
    /\ last' = <<[op |-> "query", h |-> h, now |-> answers(h),
                 before |-> IF last # <<>> /\ last[1].h = h
                            THEN <<last[1].now>> ELSE <<>>]>>
    /\ UNCHANGED <<ownerState, guard_ptr, owner_sentinel, slot, how, from, history, frame>>

\* The caller lets go of what the invocation returned or threw, or of the
\* answers; it makes its next call only after that.
Discard ==
    /\ last # <<>>
    /\ last' = <<>>
    /\ UNCHANGED <<ownerState, guard_ptr, owner_sentinel, slot, how, from, history, frame>>

Next ==
    \/ \E o \in Owners : Construct(o)
    \/ \E o, src \in Owners : CopyConstruct(o, src)
    \/ \E dst, src \in Owners : CopyAssign(dst, src)
    \/ \E o \in Owners : Destroy(o)
    \/ \E h \in Handles, f \in Callables : Connect(h, f)
    \/ \E h \in Handles, f \in Callables :
          \E s \in {no_value, <<default_sentinel>>} : ConnectSentinel(h, s, 0, f)
    \/ \E h \in Handles, f \in Callables :
          \E o \in Owners :
             ownerState[o] = "alive" /\ ConnectSentinel(h, <<get_sentinel(o)>>, o, f)
    \/ \E h \in Handles, f \in Callables : Assign(h, f)
    \/ \E h \in Handles : Disconnect(h)
    \/ \E h \in Handles, a \in Args : Invoke(h, a)
    \/ \E h \in Handles : Query(h)
    \/ Discard

Spec == Init /\ [][Next]_vars

----------------------------------------------------------------------------
(* overload_set<void(int), int(int)>: the tuple overload_set_ holds the two *)
(* handles, function<void(int)> and function<int(int)>; get<F>() hands out *)
(* a reference to a member, so every operation above on hv or hr is also an *)
(* operation on a member of the set.  A signature is its return type and   *)
(* its argument type.                                                      *)

Functions == <<[ret |-> "void", args |-> "int"], [ret |-> "int", args |-> "int"]>>

overload_set_ == <<"hv", "hr">>

signature_of(h) == Functions[CHOOSE i \in 1..Len(overload_set_) : overload_set_[i] = h]

\* The return types a caller names and the argument types it passes to call.
ReturnTypes == {"void", "int"}
ArgTypes == {"int", "long"}

\* has_type<T, std::tuple<Ts...>>
RECURSIVE has_type(_, _)
has_type(T, Ts) ==
    IF Ts = <<>> THEN FALSE
    ELSE IF Head(Ts) = T THEN TRUE
    ELSE has_type(T, Tail(Ts))

has_overload(T) == has_type(T, Functions)

\* Variant: the member is looked up by return type alone, so the arguments
\* are converted to the member's.
get_by_return_type(T) ==
    LET m == {i \in 1..Len(Functions) : Functions[i].ret = T.ret} IN
    IF m = {} THEN <<>> ELSE <<overload_set_[CHOOSE i \in m : TRUE]>>

\* get<F>(): the member of type function<F>, as an optional; <<>> when the
\* static_assert fails and the build refuses the program.
get(T) ==
    IF has_overload(T)
    THEN <<overload_set_[CHOOSE i \in 1..Len(Functions) : Functions[i] = T]>>
    ELSE <<>>

\* The callables user code passes to overload_set::connect: f and g take an
\* int and return an int; v takes an int and returns nothing.
SetCallables == Callables \cup {"v"}

return_type_of(c) == IF c = "v" THEN "void" ELSE "int"

\* std::function<F> can be constructed from callable c: c accepts F's
\* argument, and what it returns converts to F's return type (anything
\* converts to void).
constructible_from(F, c) ==
    /\ F.args = "int"
    /\ F.ret = "void" \/ return_type_of(c) = F.ret

\* assign_overload(sentinel, func, index_sequence): connect(sentinel, func) on
\* every member, in order.  connect_impl of each member constructs its
\* std::function from func: the call is well-formed only when every member's
\* std::function can be constructed from it.
assign_overload_well_formed(c) ==
    \A i \in 1..Len(overload_set_) : constructible_from(Functions[i], c)

\* overload_set::connect(sentinel, f), f passed as an lvalue.
\* s is the sentinel argument and o the owner it was obtained from (0: none).
SetConnect(s, o, c) ==
    /\ last = <<>>
    /\ IF assign_overload_well_formed(c)
       THEN /\ slot' = [h \in Handles |->
                         IF \E i \in 1..Len(overload_set_) : overload_set_[i] = h
                         THEN [func |-> c, sentinel |-> s] ELSE slot[h]]
            /\ how' = [h \in Handles |->
                         IF \E i \in 1..Len(overload_set_) : overload_set_[i] = h
                         THEN "connect_sentinel" ELSE how[h]]
            /\ from' = [h \in Handles |->
                         IF \E i \in 1..Len(overload_set_) : overload_set_[i] = h
                         THEN (IF history THEN o ELSE 0) ELSE from[h]]
            /\ last' = <<[op |-> "set_connect", built |-> TRUE, c |-> c, s |-> s,
                         untouched |-> <<>>]>>
       ELSE /\ last' = <<[op |-> "set_connect", built |-> FALSE, c |-> c, s |-> s,
                         untouched |-> slot]>>
            /\ UNCHANGED <<slot, how, from>>
    /\ UNCHANGED <<ownerState, guard_ptr, owner_sentinel, history, frame>>

\* overload_set::call<ReturnType>(args...), Args deduced from the argument:
\* get<ReturnType(Args...)>()(args...).
SetCall(R, T, a) ==
    /\ last = <<>>
    /\ LET sig == [ret |-> R, args |-> T]
           m == get(sig)
       IN  IF m = <<>>
           THEN last' = <<[op |-> "call", built |-> FALSE, sig |-> sig]>>
           ELSE \E out \in (IF valid(m[1])
                            THEN BodyOutcomes(m[1], slot[m[1]].func, a)
                            ELSE {NotRun}) :
                   last' = <<[op |-> "call", built |-> TRUE, sig |-> sig,
                              h |-> m[1], arg |-> a, body |-> out,
                              res |-> operator_call(m[1], a, out)]>>
    /\ UNCHANGED <<ownerState, guard_ptr, owner_sentinel, slot, how, from, history, frame>>

NextSet ==
    \/ Next
    \/ \E c \in SetCallables :
          \E s \in {no_value, <<default_sentinel>>} : SetConnect(s, 0, c)
    \/ \E c \in SetCallables :
          \E o \in Owners :
             ownerState[o] = "alive" /\ SetConnect(<<get_sentinel(o)>>, o, c)
    \/ \E R \in ReturnTypes, T \in ArgTypes, a \in Args : SetCall(R, T, a)

SpecSet == Init /\ [][NextSet]_vars

----------------------------------------------------------------------------
(* overload_set::connect with a temporary, and overload_set::operator().   *)

\* The callable object c after a std::function was move-constructed from it:
\* still callable, its captured state moved away.
moved_from(c) ==
    IF c = "f" THEN "f_moved_from" ELSE IF c = "g" THEN "g_moved_from" ELSE c

\* What member i's connect_impl stores when assign_overload forwards the
\* rvalue func to every member in turn: the first member's std::function is
\* move-constructed from func, and every later member's from what that left.
member_callable(i, c) == IF i = 1 THEN c ELSE moved_from(c)

\* overload_set::connect(sentinel, f), f passed as an rvalue.
SetConnectRvalue(s, o, c) ==
    /\ last = <<>>
    /\ assign_overload_well_formed(c)
    /\ slot' = [h \in Handles |->
                 IF \E i \in 1..Len(overload_set_) : overload_set_[i] = h
                 THEN [func |-> member_callable(
                                   CHOOSE i \in 1..Len(overload_set_) : overload_set_[i] = h, c),
                       sentinel |-> s]
                 ELSE slot[h]]
    /\ how' = [h \in Handles |->
                 IF \E i \in 1..Len(overload_set_) : overload_set_[i] = h
                 THEN "connect_sentinel" ELSE how[h]]
    /\ from' = [h \in Handles |->
                 IF \E i \in 1..Len(overload_set_) : overload_set_[i] = h
                 THEN (IF history THEN o ELSE 0) ELSE from[h]]
    /\ last' = <<[op |-> "set_connect_rvalue", c |-> c, s |-> s]>>
    /\ UNCHANGED <<ownerState, guard_ptr, owner_sentinel, history, frame>>

\* The signature overload_set::operator()<ReturnType>(args...) dispatches to:
\* both overloads call call( args... ) without naming ReturnType, so call's
\* default ReturnType = void is used.
operator_paren_signature(R, T) == [ret |-> "void", args |-> T]

\* The value overload is `return call( args... );` in a function returning
\* optional<ReturnType>: call returns void there, so the statement is
\* ill-formed and the build refuses the instantiation.
operator_paren_well_formed(R) == R = "void"

\* overload_set::operator()<ReturnType>(args...), Args deduced from the argument.
SetOperatorCall(R, T, a) ==
    /\ last = <<>>
    /\ LET sig == [ret |-> R, args |-> T]
           m == get(operator_paren_signature(R, T))
       IN  IF m = <<>> \/ ~operator_paren_well_formed(R)
           THEN last' = <<[op |-> "operator()", built |-> FALSE, sig |-> sig]>>
           ELSE \E out \in (IF valid(m[1])
                            THEN BodyOutcomes(m[1], slot[m[1]].func, a)
                            ELSE {NotRun}) :
                   last' = <<[op |-> "operator()", built |-> TRUE, sig |-> sig,
                              h |-> m[1], arg |-> a, body |-> out,
                              res |-> operator_call(m[1], a, out)]>>
    /\ UNCHANGED <<ownerState, guard_ptr, owner_sentinel, slot, how, from, history, frame>>

NextSetAll ==
    \/ NextSet
    \/ \E c \in SetCallables :
          \E s \in {no_value, <<default_sentinel>>} : SetConnectRvalue(s, 0, c)
    \/ \E c \in SetCallables :
          \E o \in Owners :
             ownerState[o] = "alive" /\ SetConnectRvalue(<<get_sentinel(o)>>, o, c)
    \/ \E R \in ReturnTypes, T \in ArgTypes, a \in Args : SetOperatorCall(R, T, a)

SpecSetAll == Init /\ [][NextSetAll]_vars

----------------------------------------------------------------------------
(* Copies of handles.  function<...> declares no copy operations (its       *)
(* templated constructor and operator= are disabled for an argument of its  *)
(* own type), so the implicit ones copy slot_: the std::function and the    *)
(* optional sentinel.                                                       *)

\* dst = src, for two handles of the same signature.
HandleCopy(dst, src) ==
    /\ last = <<>>
    /\ dst # src
    /\ returns_void(dst) = returns_void(src)
    /\ slot' = [slot EXCEPT ![dst] = slot[src]]
    /\ how' = [how EXCEPT ![dst] = "copy"]
    /\ from' = [from EXCEPT ![dst] = from[src]]
    /\ last' = <<>>
    /\ UNCHANGED <<ownerState, guard_ptr, owner_sentinel, history, frame>>

InitCopy == InitOver({"hv", "hr", "hc"}) /\ history = FALSE

\* The operations on single handles, with owners that are constructed and
\* destroyed but not copied, and invocations with one argument value.
NextCopy ==
    \/ \E o \in Owners : Construct(o)
    \/ \E o \in Owners : Destroy(o)
    \/ \E h \in Handles, f \in Callables : Connect(h, f)
    \/ \E h \in Handles, f \in Callables :
          \E o \in Owners :
             ownerState[o] = "alive" /\ ConnectSentinel(h, <<get_sentinel(o)>>, o, f)
    \/ \E h \in Handles, f \in Callables : Assign(h, f)
    \/ \E h \in Handles : Disconnect(h)
    \/ \E h \in Handles : Invoke(h, 0)
    \/ \E dst, src \in Handles : HandleCopy(dst, src)
    \/ Discard

SpecCopy == InitCopy /\ [][NextCopy]_vars

----------------------------------------------------------------------------
(* operator() taken one step of its body at a time: the test this->valid(), *)
(* the call this->slot_.func(args...), what the callable does while it     *)
(* runs, and the return.  Between two steps another thread may construct   *)
(* or destroy an owner, and while the callable runs it may disconnect or   *)
(* reconnect the handle that is invoking it.  The frame records            *)
(*   pc              : "call" (valid() was true, the call is next),        *)
(*                     "no_call" (valid() was false) or "running"          *)
(*   callee          : the callable the call entered                       *)
(*   started_expired : whether expired() held when the call entered it     *)
(*   callee_intact   : the std::function target that is running has not    *)
(*                     been destroyed                                      *)
(*   reentered       : the operation the callable made on its own handle   *)
(*   set_by_body     : the slot as that operation left it                  *)

\* if( this->valid() )
Enter(h, a) ==
    /\ last = <<>>
    /\ frame = <<>>
    /\ frame' = <<[h |-> h, arg |-> a,
                  pc |-> IF valid(h) THEN "call" ELSE "no_call",
                  callee |-> EmptyFunc, started_expired |-> FALSE,
                  callee_intact |-> TRUE, reentered |-> "none",
                  set_by_body |-> EmptySlot]>>
    /\ UNCHANGED <<ownerState, guard_ptr, owner_sentinel, slot, how, from, history, last>>

\* this->slot_.func( args... ): the stored callable starts executing.
CallSlot ==
    /\ frame # <<>>
    /\ frame[1].pc = "call"
    /\ frame' = <<[frame[1] EXCEPT !.pc = "running",
                                   !.callee = slot[frame[1].h].func,
                                   !.started_expired = expired(frame[1].h)]>>
    /\ UNCHANGED <<ownerState, guard_ptr, owner_sentinel, slot, how, from, history, last>>

\* The running callable calls disconnect() on the handle invoking it:
\* slot_ = {} destroys the std::function target, the callable that is running.
BodyDisconnect ==
    /\ frame # <<>>
    /\ frame[1].pc = "running"
    /\ frame[1].reentered = "none"
    /\ slot' = [slot EXCEPT ![frame[1].h] = EmptySlot]
    /\ how' = [how EXCEPT ![frame[1].h] = "disconnect"]
    /\ from' = [from EXCEPT ![frame[1].h] = 0]
    /\ frame' = <<[frame[1] EXCEPT !.callee_intact = FALSE,
                                   !.reentered = "disconnect",
                                   !.set_by_body = EmptySlot]>>
    /\ UNCHANGED <<ownerState, guard_ptr, owner_sentinel, history, last>>

\* The running callable calls connect(f) on the handle invoking it:
\* slot_.func = { f } destroys the previous target, the callable that is running.
BodyConnect(f) ==
    /\ frame # <<>>
    /\ frame[1].pc = "running"
    /\ frame[1].reentered = "none"
    /\ connect_impl(frame[1].h, no_value, f)
    /\ how' = [how EXCEPT ![frame[1].h] = "connect"]
    /\ from' = [from EXCEPT ![frame[1].h] = 0]
    /\ frame' = <<[frame[1] EXCEPT !.callee_intact = FALSE,
                                   !.reentered = "connect",
                                   !.set_by_body = [func |-> f, sentinel |-> no_value]]>>
    /\ UNCHANGED <<ownerState, guard_ptr, owner_sentinel, history, last>>

\* A callable that goes on running after its own object was destroyed has
\* undefined behaviour: besides every outcome of its body, a crash.
Crash ==
    Throws([type |-> "undefined_behaviour", what |-> "use after free",
            passthrough |-> FALSE])

\* What operator() hands back once the callable it entered ended as `out`:
\* the try block's return and the catch handler.
completed(h, callee, a, out) ==
    LET called == <<[callable |-> callee, arg |-> a]>> IN
    IF out.exc = <<>>
    THEN [called |-> called, ended |-> "returned",
          ret |-> IF returns_void(h) THEN <<>> ELSE out.ret, exc |-> <<>>]
    ELSE IF is_function_exception(out.exc[1]) /\ ~out.exc[1].passthrough
         THEN [called |-> called, ended |-> "returned", ret |-> no_value, exc |-> <<>>]
         ELSE [called |-> called, ended |-> "threw", ret |-> <<>>, exc |-> out.exc]

\* The callable ends and operator() returns or throws.
Return ==
    /\ frame # <<>>
    /\ frame[1].pc = "running"
    /\ \E out \in BodyOutcomes(frame[1].h, frame[1].callee, frame[1].arg)
                   \cup (IF frame[1].callee_intact THEN {} ELSE {Crash}) :
          last' = <<[op |-> "stepped", h |-> frame[1].h, arg |-> frame[1].arg,
                     body |-> out, reentered |-> frame[1].reentered,
                     set_by_body |-> frame[1].set_by_body,
                     res |-> completed(frame[1].h, frame[1].callee, frame[1].arg, out)]>>
    /\ frame' = <<>>
    /\ UNCHANGED <<ownerState, guard_ptr, owner_sentinel, slot, how, from, history>>

\* valid() was false: operator() returns without calling anything.
NoCall ==
    /\ frame # <<>>
    /\ frame[1].pc = "no_call"
    /\ last' = <<[op |-> "stepped", h |-> frame[1].h, arg |-> frame[1].arg,
                 body |-> NotRun, reentered |-> "none", set_by_body |-> EmptySlot,
                 res |-> [called |-> <<>>, ended |-> "returned", ret |-> no_value,
                          exc |-> <<>>]]>>
    /\ frame' = <<>>
    /\ UNCHANGED <<ownerState, guard_ptr, owner_sentinel, slot, how, from, history>>

\* Owners are constructed and destroyed by any thread at any time; the
\* thread that invokes connects only between invocations.
NextSteps ==
    \/ \E o \in Owners : Construct(o)
    \/ \E o \in Owners : Destroy(o)
    \/ \E h \in Handles, f \in Callables : frame = <<>> /\ Connect(h, f)
    \/ \E h \in Handles, f \in Callables :
          \E o \in Owners :
             /\ frame = <<>>
             /\ ownerState[o] = "alive"
             /\ ConnectSentinel(h, <<get_sentinel(o)>>, o, f)
    \/ \E h \in Handles, a \in Args : Enter(h, a)
    \/ CallSlot
    \/ BodyDisconnect
    \/ \E f \in Callables : BodyConnect(f)
    \/ Return
    \/ NoCall
    \/ Discard

SpecSteps == Init /\ [][NextSteps]_vars

SpecIssued == InitIssued /\ [][Next]_vars

----------------------------------------------------------------------------
(* Vocabulary of the properties.  An invocation leaves every other variable *)
(* unchanged and nothing else happens until its outcome is discarded, so in *)
(* a state where InvokedOn(h) holds the slots and the owners are those the  *)
(* invocation saw.                                                          *)

InvokedOn(h) == last # <<>> /\ last[1].op = "invoke" /\ last[1].h = h

QueriedOn(h) == last # <<>> /\ last[1].op = "query" /\ last[1].h = h

\* The invocation entered nothing and came back empty-handed.
NothingCalled(r) ==
    /\ r.called = <<>>
    /\ r.ended = "returned"
    /\ r.ret = no_value
    /\ r.exc = <<>>

\* The invocation entered the stored callable of h, once, with the argument given.
CalledOnce(h) ==
    last[1].res.called = <<[callable |-> slot[h].func, arg |-> last[1].arg]>>

HasSentinel(h) == slot[h].sentinel # no_value

\* The slot of h holds a sentinel that was obtained from owner o.
HoldsSentinelOf(h, o) == HasSentinel(h) /\ from[h] = o

\* What the handle does guarantee, whoever holds the marker: an invocation
\* enters the stored callable, once, exactly when a callable is stored and the
\* stored sentinel, if any, does not report expired.
SentinelDecidesInvocation ==
    \A h \in Handles :
        InvokedOn(h)
            => IF empty(h) \/ expired(h)
               THEN NothingCalled(last[1].res)
               ELSE CalledOnce(h)

\* operator= writes the callable and leaves the stored sentinel as it was.
AssignKeepsSentinel ==
    [][\A h \in Handles :
          (how'[h] = "assign" /\ how'[h] # how[h])
              => (slot'[h].sentinel = slot[h].sentinel /\ ~empty(h)')]_vars

----------------------------------------------------------------------------
\* C1: once the owner that issued the sentinel a handle was connected with is
\* destroyed, the handle is not valid, and an invocation of it enters no
\* callable and yields no result.
C1_DeadOwnerNeverInvoked ==
    \A h \in Handles : \A o \in Owners :
        (/\ how[h] = "connect_sentinel"
         /\ HoldsSentinelOf(h, o)
         /\ ownerState[o] = "dead"
         /\ InvokedOn(h))
            => (~valid(h) /\ NothingCalled(last[1].res))

\* C2: valid() is true exactly when a callable is stored and the sentinel is
\* absent or reports alive; expired() is true exactly when a sentinel is
\* present and reports not-alive; valid() = !empty() && !expired().
C2_ValidIffBoundAndLive ==
    \A h \in Handles :
        /\ expired(h) <=> (HasSentinel(h) /\ sentinel_expired(slot[h].sentinel[1]))
        /\ valid(h) <=> /\ slot[h].func \in Callables
                        /\ (~HasSentinel(h) \/ ~sentinel_expired(slot[h].sentinel[1]))
        /\ valid(h) <=> (~empty(h) /\ ~expired(h))

\* One handle is bound but expired (its sentinel's marker has a dead owner),
\* the other is bound with a sentinel and valid.
C2_Witness ==
    \E h1, h2 \in Handles :
        /\ ~empty(h1) /\ expired(h1) /\ ~valid(h1)
        /\ slot[h1].sentinel[1].ptr # NullPtr
        /\ HasSentinel(h2) /\ valid(h2)

\* C3: a handle connected without a sentinel is valid whatever the owners do,
\* and every invocation of it enters the stored callable exactly once.
C3_NoSentinelAlwaysInvoked ==
    \A h \in Handles :
        how[h] = "connect"
            => /\ ~HasSentinel(h)
               /\ ~expired(h)
               /\ valid(h)
               /\ InvokedOn(h) => CalledOnce(h)

\* A handle connected without a sentinel is invoked after an owner has died.
C3_Witness ==
    \E h \in Handles :
        /\ how[h] = "connect"
        /\ InvokedOn(h)
        /\ \E o \in Owners : ownerState[o] = "dead"

\* C4: when the callable of a valid handle throws a function_exception, the
\* invocation returns no result and nothing escapes if passthrough is unset,
\* and the same exception escapes if passthrough is set; void and value alike.
C4_SoftFailure ==
    \A h \in Handles :
        (/\ InvokedOn(h)
         /\ valid(h)
         /\ last[1].body.exc # <<>>
         /\ is_function_exception(last[1].body.exc[1]))
            => /\ CalledOnce(h)
               /\ ~last[1].body.exc[1].passthrough
                    => /\ last[1].res.ended = "returned"
                       /\ last[1].res.ret = no_value
                       /\ last[1].res.exc = <<>>
               /\ last[1].body.exc[1].passthrough
                    => /\ last[1].res.ended = "threw"
                       /\ last[1].res.exc = last[1].body.exc

\* A value-returning handle let a passthrough function_exception escape.
C4_Witness ==
    /\ InvokedOn("hr")
    /\ valid("hr")
    /\ last[1].body.exc = <<function_exception("abort", TRUE)>>
    /\ last[1].res.ended = "threw"

\* C5: an exception of the callable that is not a function_exception escapes
\* the invocation unchanged, for void and value handles alike.
C5_DefectEscapes ==
    \A h \in Handles :
        (/\ InvokedOn(h)
         /\ valid(h)
         /\ last[1].body.exc # <<>>
         /\ ~is_function_exception(last[1].body.exc[1]))
            => /\ CalledOnce(h)
               /\ last[1].res.ended = "threw"
               /\ last[1].res.exc = last[1].body.exc

\* A void handle let a runtime_error of its callable escape.
C5_Witness ==
    /\ InvokedOn("hv")
    /\ valid("hv")
    /\ last[1].body.exc = <<other_exception>>
    /\ last[1].res.ended = "threw"

\* C6: after operator= on a handle that holds an owner's sentinel, the new
\* callable is not entered when that owner is destroyed, and an invocation
\* enters the new callable when that owner is alive.
C6_AssignKeepsOwner ==
    \A h \in Handles : \A o \in Owners :
        (how[h] = "assign" /\ HoldsSentinelOf(h, o) /\ InvokedOn(h))
            => /\ ownerState[o] = "dead" => NothingCalled(last[1].res)
               /\ ownerState[o] = "alive" => CalledOnce(h)

\* C7: after disconnect() the callable and the sentinel are both gone:
\* empty() is true, expired() and valid() are false, and an invocation enters
\* no callable and yields no result.
C7_DisconnectClearsBoth ==
    \A h \in Handles :
        how[h] = "disconnect"
            => /\ slot[h] = EmptySlot
               /\ empty(h)
               /\ ~expired(h)
               /\ ~valid(h)
               /\ InvokedOn(h) => NothingCalled(last[1].res)

\* A disconnected handle is invoked.
C7_Witness ==
    \E h \in Handles : how[h] = "disconnect" /\ InvokedOn(h)

\* C8: connect replaces callable and sentinel together: connected without a
\* sentinel the handle is valid and invoked whatever any owner does, and
\* connected with an owner's sentinel it is valid exactly while that owner is
\* alive.
C8_ConnectReplacesBoth ==
    \A h \in Handles :
        /\ how[h] = "connect"
              => (~HasSentinel(h) /\ valid(h) /\ (InvokedOn(h) => CalledOnce(h)))
        /\ how[h] = "connect_sentinel"
              => \A o \in Owners :
                    HoldsSentinelOf(h, o) => (valid(h) <=> ownerState[o] = "alive")

\* C9: a default-constructed handle is empty and not valid, and an
\* invocation of it enters no callable and yields no result.
C9_DefaultUnbound ==
    \A h \in Handles :
        how[h] = "default"
            => /\ empty(h)
               /\ ~valid(h)
               /\ InvokedOn(h) => NothingCalled(last[1].res)

\* A handle nothing was ever bound to is invoked.
C9_Witness ==
    \E h \in Handles : how[h] = "default" /\ InvokedOn(h)

\* The sentinels that can exist: default-constructed, or watching a marker
\* that has been allocated.
ExistingSentinels ==
    {s \in Sentinels : s.ptr = NullPtr \/ ownerState[s.ptr] # "unborn"}

\* C10: a sentinel that reports expired reports expired after every step, and
\* a sentinel stored in a slot is expired as soon as no living owner holds
\* its marker.
C10_ExpiryMonotonic ==
    /\ [][\A s \in ExistingSentinels :
              sentinel_expired(s) => sentinel_expired(s)']_vars
    /\ [](\A h \in Handles :
            (/\ HasSentinel(h)
             /\ ~\E o \in Owners :
                   ownerState[o] = "alive" /\ guard_ptr[o] = slot[h].sentinel[1].ptr)
                => expired(h))

\* A stored sentinel of a destroyed owner is expired while another owner lives.
C10_Witness ==
    \E h \in Handles : \E o, p \in Owners :
        /\ slot[h].sentinel = <<sentinel_t(o)>>
        /\ expired(h)
        /\ ownerState[o] = "dead"
        /\ ownerState[p] = "alive"

\* C11: a valid value-returning handle whose callable returns normally enters
\* the stored callable once with the argument given and returns a present
\* result holding the value the callable returned; a result is absent only
\* when the handle is not valid or the callable threw a function_exception
\* without passthrough.
C11_PresentResult ==
    \A h \in Handles :
        (InvokedOn(h) /\ ~returns_void(h))
            => /\ (valid(h) /\ last[1].body.exc = <<>>)
                    => /\ CalledOnce(h)
                       /\ last[1].res.ended = "returned"
                       /\ has_value(last[1].res.ret)
                       /\ last[1].res.ret = last[1].body.ret
                       /\ last[1].res.ret = <<ValueOf(slot[h].func, last[1].arg)>>
               /\ (last[1].res.ended = "returned" /\ ~has_value(last[1].res.ret))
                    => \/ ~valid(h)
                       \/ /\ last[1].body.exc # <<>>
                          /\ is_function_exception(last[1].body.exc[1])
                          /\ ~last[1].body.exc[1].passthrough

\* The value-returning handle, bound to g, was invoked with 1 and returned 21.
C11_Witness ==
    /\ InvokedOn("hr")
    /\ valid("hr")
    /\ slot["hr"].func = "g"
    /\ last[1].arg = 1
    /\ last[1].res.ret = <<21>>

\* Destroying an owner and invoking a handle write no slot.
DestroyAndInvokeKeepSlots ==
    [][(\/ \E o \in Owners : ownerState[o] = "alive" /\ ownerState'[o] = "dead"
        \/ (last' # <<>> /\ last'[1].op = "invoke"))
           => slot' = slot]_vars

\* C12: a handle bound with an owner's sentinel stays bound once that owner
\* is destroyed, also across invocations: empty() is false and expired() is
\* true.
C12_BoundAfterOwnerDies ==
    \A h \in Handles : \A o \in Owners :
        (HoldsSentinelOf(h, o) /\ ownerState[o] = "dead")
            => (~empty(h) /\ expired(h))

\* C13: a handle bound with a default-constructed sentinel is bound and
\* expired from the binding on, and no invocation of it enters the callable.
C13_DefaultSentinelExpired ==
    \A h \in Handles :
        (HasSentinel(h) /\ slot[h].sentinel[1] = default_sentinel)
            => /\ ~empty(h)
               /\ sentinel_expired(slot[h].sentinel[1])
               /\ expired(h)
               /\ ~valid(h)
               /\ InvokedOn(h) => NothingCalled(last[1].res)

\* A handle bound with a default-constructed sentinel is invoked while an
\* owner is alive.
C13_Witness ==
    \E h \in Handles :
        /\ slot[h].sentinel = <<default_sentinel>>
        /\ InvokedOn(h)
        /\ \E o \in Owners : ownerState[o] = "alive"

\* C14: asking empty(), expired(), valid(), operator bool() and the stored
\* sentinel's expired() again gives the answers of the time before, and a
\* step that only asks or invokes changes no slot, no answer of any handle
\* and no sentinel's report.
C14_PureQueries ==
    /\ [](\A h \in Handles :
            QueriedOn(h)
                => /\ last[1].now = answers(h)
                   /\ last[1].before # <<>> => last[1].before[1] = last[1].now)
    /\ [][last' # <<>>
            => /\ slot' = slot
               /\ \A h \in Handles : answers(h)' = answers(h)
               /\ \A s \in ExistingSentinels :
                     sentinel_expired(s)' = sentinel_expired(s)]_vars

\* A bound handle whose sentinel has expired is asked twice in a row.
C14_Witness ==
    \E h \in Handles :
        /\ QueriedOn(h)
        /\ last[1].before # <<>>
        /\ last[1].now.expired
        /\ ~last[1].now.empty

\* C15: overload_set::connect binds the callable, with the sentinel given,
\* into every member whose signature the callable can satisfy and leaves
\* every other member as it was, and a callable that satisfies only some
\* members is accepted.
C15_BindsWhatFits ==
    (last # <<>> /\ last[1].op = "set_connect")
        => /\ last[1].built
           /\ \A i \in 1..Len(overload_set_) :
                 LET h == overload_set_[i] IN
                 IF constructible_from(Functions[i], last[1].c)
                 THEN slot[h] = [func |-> last[1].c, sentinel |-> last[1].s]
                 ELSE slot[h] = last[1].untouched[h]

\* C16: call<Signature>(args) invokes the one member whose signature equals
\* Signature and returns that member's result, enters no other member's
\* callable, converts to no other member's signature, and is refused before
\* anything runs when no member has the signature.
C16_CallDispatchesExactly ==
    (last # <<>> /\ last[1].op = "call")
        => LET matching == {h \in Handles : signature_of(h) = last[1].sig} IN
           IF matching = {}
           THEN ~last[1].built
           ELSE /\ last[1].built
                /\ matching = {last[1].h}
                /\ last[1].res = operator_call(last[1].h, last[1].arg, last[1].body)
                /\ last[1].res.called =
                      IF valid(last[1].h)
                      THEN <<[callable |-> slot[last[1].h].func, arg |-> last[1].arg]>>
                      ELSE <<>>

\* call<int>(1) returned the value of the callable of the int(int) member
\* while the void(int) member was valid with another callable.
C16_Witness ==
    /\ last # <<>>
    /\ last[1].op = "call"
    /\ last[1].built
    /\ last[1].h = "hr"
    /\ last[1].arg = 1
    /\ last[1].res.ret = <<ValueOf(slot["hr"].func, 1)>>
    /\ valid("hv")
    /\ slot["hv"].func # slot["hr"].func

\* call<int> with a long argument was refused although an int(int) member
\* is valid.
C16_WitnessRefused ==
    /\ last # <<>>
    /\ last[1].op = "call"
    /\ ~last[1].built
    /\ last[1].sig = [ret |-> "int", args |-> "long"]
    /\ valid("hr")

\* The step is an operation on handle h: it wrote the slot of h, or it is
\* recorded as the last operation on h, or it invoked h.  (how and last are
\* written by the operations themselves; a connect that stores what the slot
\* already held, after a connect, is the one operation this does not see,
\* and it changes nothing.)
OperationOn(h) ==
    \/ slot'[h] # slot[h]
    \/ how'[h] # how[h]
    \/ (last' # <<>> /\ last'[1].op = "invoke" /\ last'[1].h = h)

\* C17: an operation on one handle leaves the callable, the sentinel and the
\* validity of every other handle as they were, the members of one
\* overload_set and a copy of a handle included; a copy takes the callable
\* and the sentinel of its source and leaves the source as it was.
C17_HandlesIndependent ==
    [][\A h \in Handles :
          /\ (ownerState' = ownerState /\ OperationOn(h))
                => \A k \in Handles \ {h} :
                      /\ slot'[k] = slot[k]
                      /\ valid(k)' = valid(k)
                      /\ empty(k)' = empty(k)
                      /\ expired(k)' = expired(k)
          /\ (how'[h] = "copy" /\ slot'[h] # slot[h])
                => \E src \in Handles \ {h} : slot'[h] = slot[src]]_vars

\* The copy hc of hv is still valid with hv's former callable after hv was
\* disconnected.
C17_Witness ==
    /\ "hc" \in Handles
    /\ how["hc"] = "copy"
    /\ how["hv"] = "disconnect"
    /\ valid("hc")
    /\ empty("hv")

\* C19: a sentinel obtained from an owner reports alive exactly while that
\* owner exists, whatever copies of owners are made, and a living owner
\* holds the only strong reference to the marker its sentinel watches.
C19_AliveExactlyWhileOwnerExists ==
    \A h \in Handles : \A o \in Owners :
        HoldsSentinelOf(h, o)
            => /\ ~sentinel_expired(slot[h].sentinel[1]) <=> ownerState[o] = "alive"
               /\ ownerState[o] = "alive"
                    => /\ guard_ptr[o] = slot[h].sentinel[1].ptr
                       /\ use_count(slot[h].sentinel[1].ptr) = 1

\* C18: however an invocation and the destruction of the owner by another
\* thread interleave, the stored callable does not start executing once the
\* sentinel of the handle has expired.
C18_NeverStartsAfterOwnerDied ==
    (frame # <<>> /\ frame[1].pc = "running") => ~frame[1].started_expired

\* C20: when the running callable disconnects or reconnects the handle that
\* is invoking it, the callable object is not destroyed before it returns,
\* and once the invocation has returned the handle holds what that
\* operation stored.
C20_ReentrantKeepsCallee ==
    /\ (frame # <<>> /\ frame[1].pc = "running") => frame[1].callee_intact
    /\ (last # <<>> /\ last[1].op = "stepped" /\ last[1].reentered # "none")
          => slot[last[1].h] = last[1].set_by_body

\* C21: overload_set::connect given one callable as a temporary binds every
\* member of the set to a callable with the captured state of the callable
\* that was passed; no member holds one that was moved from.
C21_EveryMemberGetsTheCallable ==
    (last # <<>> /\ last[1].op = "set_connect_rvalue")
        => \A i \in 1..Len(overload_set_) :
              slot[overload_set_[i]] = [func |-> last[1].c, sentinel |-> last[1].s]

\* C22: operator()<R>(args) invokes the member call<R>(args) invokes, the
\* one of signature R(Args...), and returns its result, and is refused
\* exactly when call<R>(args) is, for value-returning and void R alike.
C22_OperatorSameAsCall ==
    (last # <<>> /\ last[1].op = "operator()")
        => LET m == get(last[1].sig) IN
           IF m = <<>>
           THEN ~last[1].built
           ELSE /\ last[1].built
                /\ last[1].h = m[1]
                /\ last[1].res = operator_call(m[1], last[1].arg, last[1].body)

====
